---- MODULE Spec2Model ----
(***************************************************************************)
(* Model of streamlit_app.py: the article store (SQLite table articles),   *)
(* the session state of the Streamlit script, and the two text functions   *)
(* render_markers_to_html and create_article_links.                        *)
(*                                                                         *)
(* Text is a sequence of one-character strings, so that substring search,  *)
(* str.replace and re.sub act on characters exactly as in Python.          *)
(***************************************************************************)
EXTENDS Integers, Sequences, FiniteSets, TLC

VARIABLES
    \* ---- the database and the session ----
    users,              \* rows of table users
    articles,           \* rows of table articles (the id column, which the code never reads, is left out)
    now,                \* datetime.now(), in seconds: it moves on with every save or delete
    logged_in,          \* st.session_state.logged_in
    username,           \* st.session_state.username
    encyclopedia,       \* st.session_state.encyclopedia
    last_run,           \* history: the last save or delete handler that ran, its inputs and steps
    cached_rows,        \* history: the rows read when encyclopedia was last loaded
    \* ---- the text pipeline (search screen, previews) ----
    content,            \* article_content / text passed to the functions
    all_titles,         \* list(st.session_state.encyclopedia.keys())
    current_title,      \* st.session_state.selected_article
    sorted_titles,      \* local of create_article_links
    idx,                \* position of the for loop in sorted_titles
    linked_content,     \* local of create_article_links, then its result
    mentioned_articles, \* the related-articles list
    preview_content,    \* render_markers_to_html(content) of a preview
    rerendered,         \* render_markers_to_html applied to a rendering
    pc                  \* position of the text pipeline

textVars == <<content, all_titles, current_title, sorted_titles, idx,
              linked_content, mentioned_articles, preview_content, rerendered, pc>>

storeVars == <<users, articles, now, logged_in, username, encyclopedia, last_run, cached_rows>>

vars == <<storeVars, textVars>>

\* ------------------------------------------------------------------------
\* Python str primitives on character sequences
\* ------------------------------------------------------------------------

\* s[i : i+len(sub)] == sub, with i counted from 1
StartsWithAt(s, sub, i) ==
    /\ i >= 1
    /\ i + Len(sub) - 1 <= Len(s)
    /\ SubSeq(s, i, i + Len(sub) - 1) = sub

\* str.find(sub, start): the first index >= i at which sub occurs, 0 when none
Find(s, sub, i) ==
    LET hits == {p \in i..(Len(s) - Len(sub) + 1) : StartsWithAt(s, sub, p)} IN
    IF hits = {} THEN 0 ELSE CHOOSE p \in hits : \A q \in hits : p <= q

\* Python "sub in s"
Contains(s, sub) == Find(s, sub, 1) # 0

\* str.replace with an empty pattern: new before every character and at the end
Interleave(s, new) ==
    LET w == Len(new) + 1 IN
    [j \in 1..(Len(s) * w + Len(new)) |->
        IF (j - 1) % w < Len(new) THEN new[((j - 1) % w) + 1]
        ELSE s[((j - 1) \div w) + 1]]

\* str.replace(old, new) from position i on: non-overlapping, left to right
RECURSIVE ReplaceFrom(_, _, _, _)
ReplaceFrom(s, old, new, i) ==
    LET p == Find(s, old, i) IN
    IF p = 0 THEN SubSeq(s, i, Len(s))
    ELSE SubSeq(s, i, p - 1) \o new \o ReplaceFrom(s, old, new, p + Len(old))

Replace(s, old, new) ==
    IF old = <<>> THEN Interleave(s, new) ELSE ReplaceFrom(s, old, new, 1)

\* concatenation of a sequence of texts
RECURSIVE Flatten(_)
Flatten(ss) == IF ss = <<>> THEN <<>> ELSE Head(ss) \o Flatten(Tail(ss))

\* ------------------------------------------------------------------------
\* The tag grammar of render_markers_to_html
\* ------------------------------------------------------------------------

Kinds == {"yellow", "green", "blue", "red"}

KindName(k) ==
    CASE k = "yellow" -> <<"y", "e", "l", "l", "o", "w">>
      [] k = "green"  -> <<"g", "r", "e", "e", "n">>
      [] k = "blue"   -> <<"b", "l", "u", "e">>
      [] k = "red"    -> <<"r", "e", "d">>

OpenTag(k) == <<"<">> \o KindName(k) \o <<">">>
CloseTag(k) == <<"<", "/">> \o KindName(k) \o <<">">>

YellowMark ==
    <<"<", "m", "a", "r", "k", " ", "s", "t", "y", "l", "e", "=", "\"", "b", "a", "c",
      "k", "g", "r", "o", "u", "n", "d", "-", "c", "o", "l", "o", "r", ":", " ", "#",
      "f", "f", "e", "b", "3", "b", ";", " ", "p", "a", "d", "d", "i", "n", "g", ":",
      " ", "2", "p", "x", " ", "4", "p", "x", ";", " ", "b", "o", "r", "d", "e", "r",
      "-", "r", "a", "d", "i", "u", "s", ":", " ", "3", "p", "x", ";", "\"", ">">>
GreenMark ==
    <<"<", "m", "a", "r", "k", " ", "s", "t", "y", "l", "e", "=", "\"", "b", "a", "c",
      "k", "g", "r", "o", "u", "n", "d", "-", "c", "o", "l", "o", "r", ":", " ", "#",
      "8", "b", "c", "3", "4", "a", ";", " ", "p", "a", "d", "d", "i", "n", "g", ":",
      " ", "2", "p", "x", " ", "4", "p", "x", ";", " ", "b", "o", "r", "d", "e", "r",
      "-", "r", "a", "d", "i", "u", "s", ":", " ", "3", "p", "x", ";", "\"", ">">>
BlueMark ==
    <<"<", "m", "a", "r", "k", " ", "s", "t", "y", "l", "e", "=", "\"", "b", "a", "c",
      "k", "g", "r", "o", "u", "n", "d", "-", "c", "o", "l", "o", "r", ":", " ", "#",
      "0", "3", "a", "9", "f", "4", ";", " ", "c", "o", "l", "o", "r", ":", " ", "w",
      "h", "i", "t", "e", ";", " ", "p", "a", "d", "d", "i", "n", "g", ":", " ", "2",
      "p", "x", " ", "4", "p", "x", ";", " ", "b", "o", "r", "d", "e", "r", "-", "r",
      "a", "d", "i", "u", "s", ":", " ", "3", "p", "x", ";", "\"", ">">>
RedMark ==
    <<"<", "m", "a", "r", "k", " ", "s", "t", "y", "l", "e", "=", "\"", "b", "a", "c",
      "k", "g", "r", "o", "u", "n", "d", "-", "c", "o", "l", "o", "r", ":", " ", "#",
      "f", "4", "4", "3", "3", "6", ";", " ", "c", "o", "l", "o", "r", ":", " ", "w",
      "h", "i", "t", "e", ";", " ", "p", "a", "d", "d", "i", "n", "g", ":", " ", "2",
      "p", "x", " ", "4", "p", "x", ";", " ", "b", "o", "r", "d", "e", "r", "-", "r",
      "a", "d", "i", "u", "s", ":", " ", "3", "p", "x", ";", "\"", ">">>

\* the opening of the styled container of each kind
MarkOpen(k) ==
    CASE k = "yellow" -> YellowMark
      [] k = "green"  -> GreenMark
      [] k = "blue"   -> BlueMark
      [] k = "red"    -> RedMark

MarkClose == <<"<", "/", "m", "a", "r", "k", ">">>

Newline == <<"\n">>
Br == <<"<", "b", "r", ">">>

\* re.sub(r'<k>(.*?)</k>', r'<mark ...>\1</mark>', text, flags=re.DOTALL) from
\* position i on: the leftmost open token, then the first close token after it;
\* an open token with no close token after it matches nothing, and neither does
\* any later one.
\* variant: flags=re.DOTALL forgotten, a span that holds a newline is not matched
RECURSIVE ReSubFromNoDotAll(_, _, _)
ReSubFromNoDotAll(text, k, i) ==
    LET p == Find(text, OpenTag(k), i) IN
    IF p = 0 THEN SubSeq(text, i, Len(text))
    ELSE LET q == Find(text, CloseTag(k), p + Len(OpenTag(k))) IN
         IF q = 0 THEN SubSeq(text, i, Len(text))
         ELSE IF Contains(SubSeq(text, p + Len(OpenTag(k)), q - 1), Newline)
         THEN SubSeq(text, i, p + Len(OpenTag(k)) - 1)
                \o ReSubFromNoDotAll(text, k, p + Len(OpenTag(k)))
         ELSE SubSeq(text, i, p - 1)
                \o MarkOpen(k)
                \o SubSeq(text, p + Len(OpenTag(k)), q - 1)
                \o MarkClose
                \o ReSubFromNoDotAll(text, k, q + Len(CloseTag(k)))

\* variant: an open token with no close token is closed at the end of the text
RECURSIVE ReSubFromAutoClose(_, _, _)
ReSubFromAutoClose(text, k, i) ==
    LET p == Find(text, OpenTag(k), i) IN
    IF p = 0 THEN SubSeq(text, i, Len(text))
    ELSE LET q == Find(text, CloseTag(k), p + Len(OpenTag(k))) IN
         IF q = 0
         THEN SubSeq(text, i, p - 1)
                \o MarkOpen(k)
                \o SubSeq(text, p + Len(OpenTag(k)), Len(text))
                \o MarkClose
         ELSE SubSeq(text, i, p - 1)
                \o MarkOpen(k)
                \o SubSeq(text, p + Len(OpenTag(k)), q - 1)
                \o MarkClose
                \o ReSubFromAutoClose(text, k, q + Len(CloseTag(k)))

\* the last position >= i at which sub occurs in s, 0 when there is none
FindLast(s, sub, i) ==
    LET hits == {p \in i..(Len(s) - Len(sub) + 1) : StartsWithAt(s, sub, p)} IN
    IF hits = {} THEN 0 ELSE CHOOSE p \in hits : \A q \in hits : q <= p

\* variant: the greedy pattern (.*), a span runs to the last close token
RECURSIVE ReSubFromGreedy(_, _, _)
ReSubFromGreedy(text, k, i) ==
    LET p == Find(text, OpenTag(k), i) IN
    IF p = 0 THEN SubSeq(text, i, Len(text))
    ELSE LET q == FindLast(text, CloseTag(k), p + Len(OpenTag(k))) IN
         IF q = 0 THEN SubSeq(text, i, Len(text))
         ELSE SubSeq(text, i, p - 1)
                \o MarkOpen(k)
                \o SubSeq(text, p + Len(OpenTag(k)), q - 1)
                \o MarkClose
                \o ReSubFromGreedy(text, k, q + Len(CloseTag(k)))

RECURSIVE ReSubFrom(_, _, _)
ReSubFrom(text, k, i) ==
    LET p == Find(text, OpenTag(k), i) IN
    IF p = 0 THEN SubSeq(text, i, Len(text))
    ELSE LET q == Find(text, CloseTag(k), p + Len(OpenTag(k))) IN
         IF q = 0 THEN SubSeq(text, i, Len(text))
         ELSE SubSeq(text, i, p - 1)
                \o MarkOpen(k)
                \o SubSeq(text, p + Len(OpenTag(k)), q - 1)
                \o MarkClose
                \o ReSubFrom(text, k, q + Len(CloseTag(k)))

ReSub(text, k) == ReSubFrom(text, k, 1)

\* variant: the newline is kept after the line break put in for it
RenderKeepingNewlines(text) ==
    LET y == ReSub(text, "yellow")
        g == ReSub(y, "green")
        b == ReSub(g, "blue")
        r == ReSub(b, "red")
    IN  Replace(r, Newline, Br \o Newline)

\* variant: the newlines are left as they are
RenderWithoutBreaks(text) ==
    LET y == ReSub(text, "yellow")
        g == ReSub(y, "green")
        b == ReSub(g, "blue")
    IN  ReSub(b, "red")

\* variant: the text is rendered line by line, a line break after every line
RenderLineByLine(text) ==
    LET y == ReSub(text, "yellow")
        g == ReSub(y, "green")
        b == ReSub(g, "blue")
        r == ReSub(b, "red")
    IN  Replace(r, Newline, Br) \o Br

render_markers_to_html(text) ==
    LET y == ReSub(text, "yellow")
        g == ReSub(y, "green")
        b == ReSub(g, "blue")
        r == ReSub(b, "red")
    IN  Replace(r, Newline, Br)

\* ------------------------------------------------------------------------
\* create_article_links
\* ------------------------------------------------------------------------

StrongOpen == <<"<", "s", "t", "r", "o", "n", "g", ">">>
StrongClose == <<"<", "/", "s", "t", "r", "o", "n", "g", ">">>

\* f"<strong>{title}</strong>"
Strong(title) == StrongOpen \o title \o StrongClose

\* one step of a stable sort by descending length: t goes after every element
\* that is at least as long (sorted(..., key=len, reverse=True) keeps the
\* original order of titles of equal length)
RECURSIVE InsertByLen(_, _)
InsertByLen(s, t) ==
    IF s = <<>> THEN <<t>>
    ELSE IF Len(Head(s)) >= Len(t) THEN <<Head(s)>> \o InsertByLen(Tail(s), t)
    ELSE <<t>> \o s

RECURSIVE SortByLenDesc(_)
SortByLenDesc(s) ==
    IF s = <<>> THEN <<>>
    ELSE InsertByLen(SortByLenDesc(SubSeq(s, 1, Len(s) - 1)), s[Len(s)])

\* variant: the current title is not left out
\* variant: reverse=True forgotten, the shortest title first
RECURSIVE InsertByLenAscending(_, _)
InsertByLenAscending(s, t) ==
    IF s = <<>> THEN <<t>>
    ELSE IF Len(Head(s)) <= Len(t) THEN <<Head(s)>> \o InsertByLenAscending(Tail(s), t)
    ELSE <<t>> \o s

RECURSIVE SortByLenAscending(_)
SortByLenAscending(s) ==
    IF s = <<>> THEN <<>>
    ELSE InsertByLenAscending(SortByLenAscending(SubSeq(s, 1, Len(s) - 1)), s[Len(s)])

SortedTitlesShortestFirst(titles, current) ==
    SortByLenAscending(SelectSeq(titles, LAMBDA t : t # current))

SortedTitlesWithSelf(titles, current) == SortByLenDesc(titles)

\* sorted([t for t in all_titles if t != current_title], key=len, reverse=True)
SortedTitles(titles, current) ==
    SortByLenDesc(SelectSeq(titles, LAMBDA t : t # current))

\* variant: a title is left alone once the text holds emphasis markup
LinkOneUnlessMarked(linked, title) ==
    IF Contains(linked, title) /\ ~Contains(linked, StrongOpen)
    THEN Replace(linked, title, Strong(title))
    ELSE linked

\* the body of the for loop
LinkOne(linked, title) ==
    IF Contains(linked, title) THEN Replace(linked, title, Strong(title)) ELSE linked

\* the for loop of lines 119-121 over a list of titles
RECURSIVE LinkAll(_, _)
LinkAll(linked, titles) ==
    IF titles = <<>> THEN linked
    ELSE LinkAll(LinkOne(linked, Head(titles)), Tail(titles))

\* create_article_links as one call
create_article_links(body, titles, current) ==
    render_markers_to_html(LinkAll(body, SortedTitles(titles, current)))

\* variant: the titles are looked up in the emphasis-wrapped output
MentionedInOutput(body, titles, current) ==
    SelectSeq(titles, LAMBDA t : t # current /\ Contains(linked_content, t))

\* [t for t in all_titles if t != selected_article and t in article_content]
MentionedArticles(body, titles, current) ==
    SelectSeq(titles, LAMBDA t : t # current /\ Contains(body, t))

\* ------------------------------------------------------------------------
\* Inputs of the text pipeline
\* ------------------------------------------------------------------------

MaxTitles == 3
MaxPieces == 2
MaxRenderPieces == 3

Python == <<"P", "y", "t", "h", "o", "n">>
PythonThree == <<"P", "y", "t", "h", "o", "n", " ", "3">>
On == <<"o", "n">>
Ho == <<"h", "o">>
And == <<" ", "a", "n", "d", " ">>
Letter == <<"a">>

\* article titles: the save handlers reject the empty title
TitlePool == {Python, PythonThree, On, Ho}

BodyPieces == {PythonThree, Python, Ho, And}

RenderPieces ==
    {OpenTag(k) : k \in Kinds} \cup {CloseTag(k) : k \in Kinds} \cup {Letter, Newline}

SeqsUpTo(S, n) == UNION {[1..k -> S] : k \in 0..n}

Injective(s) == \A i, j \in 1..Len(s) : s[i] = s[j] => i = j

Range(s) == {s[i] : i \in 1..Len(s)}

Bodies == {Flatten(ps) : ps \in SeqsUpTo(BodyPieces, MaxPieces)}

\* the keys of the cached article map: distinct titles, in row order
TitleLists(pool) == {s \in SeqsUpTo(pool, MaxTitles) : Injective(s)}

RenderTexts == {Flatten(ps) : ps \in SeqsUpTo(RenderPieces, MaxRenderPieces)}

TextIdle ==
    /\ sorted_titles = <<>>
    /\ idx = 0
    /\ linked_content = <<>>
    /\ mentioned_articles = <<>>
    /\ preview_content = <<>>
    /\ rerendered = <<>>


\* ------------------------------------------------------------------------
\* The article store and the session
\* ------------------------------------------------------------------------

MaxClock == 3
MaxImages == 1

Owners == {"alice", "bob"}
Passwords == {"pass1"}
ArticleTitles == {"A", "B"}
Null == "None"                      \* Python None where a name is expected
NoTime == -1                        \* Python None / SQL NULL where a timestamp is expected
Uncategorized == "Uncategorized"    \* the sentinel label of lines 189 and 588

\* what a user types into the article form: the category field already split
\* at commas and stripped, the body, the uploaded images already encoded
Forms ==
    { [category |-> <<"">>,  content |-> "x", uploads |-> <<>>],
      [category |-> <<"c">>, content |-> "y", uploads |-> <<"img">>],
      [category |-> <<"c">>, content |-> "",  uploads |-> <<>>] }

\* hash_password(password, username): the salted digest, one per pair
hash_password(p, u) == <<u, p>>

\* [cat.strip() for cat in category.split(",") if cat.strip()], else the sentinel
Categories(segments) ==
    LET kept == SelectSeq(segments, LAMBDA c : c # "") IN
    IF kept = <<>> THEN <<Uncategorized>> ELSE kept

\* json.dumps(images) if images else None: the column is NULL, written << >>,
\* or holds one JSON text, written <<images>>
ImagesJson(images) == IF images = <<>> THEN <<>> ELSE <<images>>

\* json.loads(images) if images else []
ImagesOf(column) == IF column = <<>> THEN <<>> ELSE column[1]

RowsOf(rows, u, t) == {r \in rows : r.username = u /\ r.title = t}

\* variant: the WHERE clause forgotten
SelectAllArticles(rows, u) == rows

\* SELECT ... FROM articles WHERE username = ?
SelectArticles(rows, u) == {r \in rows : r.username = u}

\* the rows of the SELECT folded into a dict by title
get_user_encyclopedia(rows, u) ==
    LET mine == SelectArticles(rows, u)
        last(t) == CHOOSE r \in mine : r.title = t
    IN  [t \in {r.title : r \in mine} |->
            [category |-> last(t).category,
             content  |-> last(t).content,
             images   |-> ImagesOf(last(t).images),
             created  |-> last(t).created,
             updated  |-> last(t).updated]]

\* variant: the table has no UNIQUE(username, title)
InsertNeverRaises(rows, u, t) == FALSE

\* INSERT INTO articles: UNIQUE(username, title) raises IntegrityError
InsertRaises(rows, u, t) == RowsOf(rows, u, t) # {}

\* variant: INSERT OR REPLACE, the stored row is replaced by the values passed
SaveReplacingRow(rows, clock, u, t, category, body, images, created, updated, broken) ==
    IF broken THEN [ok |-> FALSE, rows |-> rows]
    ELSE [ok |-> TRUE,
          rows |-> (rows \ RowsOf(rows, u, t)) \cup
              {[username |-> u, title |-> t, category |-> category,
                content |-> body, images |-> ImagesJson(images),
                created |-> IF created = NoTime THEN clock ELSE created,
                updated |-> updated]}]

\* save_article: the rows after the call, and its result.
\* broken stands for any other exception (no connection, a failing statement).
save_article(rows, clock, u, t, category, body, images, created, updated, broken) ==
    IF broken THEN [ok |-> FALSE, rows |-> rows]
    ELSE IF ~InsertRaises(rows, u, t)
    THEN [ok |-> TRUE,
          rows |-> rows \cup
              {[username |-> u, title |-> t, category |-> category,
                content |-> body, images |-> ImagesJson(images),
                created |-> IF created = NoTime THEN clock ELSE created,
                updated |-> updated]}]
    ELSE [ok |-> TRUE,
          rows |-> {IF r.username = u /\ r.title = t
                    THEN [r EXCEPT !.category = category, !.content = body,
                                   !.images = ImagesJson(images), !.updated = clock]
                    ELSE r : r \in rows}]

\* delete_article
delete_article(rows, u, t) == rows \ RowsOf(rows, u, t)

\* the images kept by the edit form, lines 719-720
KeptImages(existing, deleted) ==
    LET keep == {i \in 1..Len(existing) : (i - 1) \notin deleted}
        RECURSIVE Pick(_)
        Pick(i) == IF i > Len(existing) THEN <<>>
                   ELSE (IF i \in keep THEN <<existing[i]>> ELSE <<>>) \o Pick(i + 1)
    IN  Pick(1)

\* no handler has run yet
NoHandler ==
    [op |-> "none", owner |-> Null, title |-> "", new_title |-> "",
     deleted |-> {}, delete_images |-> FALSE, uploads |-> <<>>,
     rejected |-> FALSE, ok |-> FALSE, before |-> {}, mid |-> {}]

\* the rows of users and articles are empty when the database file is created
\* (init_db), and the session starts logged out (lines 319-326)
StoreInit ==
    /\ users = {}
    /\ articles = {}
    /\ now = 0
    /\ logged_in = FALSE
    /\ username = Null
    /\ encyclopedia = << >>
    /\ last_run = NoHandler
    /\ cached_rows = {}

\* The search screen shows a selected article of the cached map: the body is
\* not empty, the titles are not empty, and the selected title is one of them.
InitLink ==
    /\ content \in Bodies \ {<<>>}
    /\ all_titles \in TitleLists(TitlePool) \ {<<>>}
    /\ current_title \in Range(all_titles)
    /\ pc = "input"
    /\ TextIdle
    /\ StoreInit

\* The functions on their whole domain: any body, any list of titles (the
\* empty title and the empty list too), any current title.
InitLinkFn ==
    /\ content \in {<<>>} \cup BodyPieces
    /\ all_titles \in TitleLists(TitlePool \cup {<<>>})
    /\ current_title \in TitlePool \cup {<<>>}
    /\ pc = "input"
    /\ TextIdle
    /\ StoreInit

InitRender ==
    /\ content \in RenderTexts
    /\ all_titles = <<>>
    /\ current_title = <<>>
    /\ pc = "input"
    /\ TextIdle
    /\ StoreInit

\* what stands between the tokens of a nested text
NestedFill == {<<>>, Letter, Newline}

\* open a open b close c close, the four tokens of kind k
Nested(k, a, b, c) ==
    OpenTag(k) \o a \o OpenTag(k) \o b \o CloseTag(k) \o c \o CloseTag(k)

NestedTexts == {Nested(k, a, b, c) : k \in Kinds, a, b, c \in NestedFill}

\* a text area holding two open tokens of a kind and then two close tokens
InitNested ==
    /\ content \in NestedTexts
    /\ all_titles = <<>>
    /\ current_title = <<>>
    /\ pc = "input"
    /\ TextIdle
    /\ StoreInit

\* ------------------------------------------------------------------------
\* Steps of the text pipeline
\* ------------------------------------------------------------------------

\* create_article_links, lines 117-118
CallLinks ==
    /\ pc = "input"
    /\ linked_content' = content
    /\ sorted_titles' = SortedTitles(all_titles, current_title)
    /\ idx' = 1
    /\ pc' = "loop"
    /\ UNCHANGED <<content, all_titles, current_title, mentioned_articles,
                   preview_content, rerendered>>
    /\ UNCHANGED storeVars

\* one iteration of the for loop, lines 119-121
LinkTitle ==
    /\ pc = "loop"
    /\ idx <= Len(sorted_titles)
    /\ linked_content' = LinkOne(linked_content, sorted_titles[idx])
    /\ idx' = idx + 1
    /\ UNCHANGED <<content, all_titles, current_title, sorted_titles,
                   mentioned_articles, preview_content, rerendered, pc>>
    /\ UNCHANGED storeVars

\* after the loop, lines 122-123
RenderLinked ==
    /\ pc = "loop"
    /\ idx > Len(sorted_titles)
    /\ linked_content' = render_markers_to_html(linked_content)
    /\ pc' = "returned"
    /\ UNCHANGED <<content, all_titles, current_title, sorted_titles, idx,
                   mentioned_articles, preview_content, rerendered>>
    /\ UNCHANGED storeVars

\* the related-articles list, line 513
FindMentioned ==
    /\ pc = "returned"
    /\ mentioned_articles' = MentionedArticles(content, all_titles, current_title)
    /\ pc' = "shown"
    /\ UNCHANGED <<content, all_titles, current_title, sorted_titles, idx,
                   linked_content, preview_content, rerendered>>
    /\ UNCHANGED storeVars

\* render_markers_to_html on its own (the previews, lines 577 and 708)
Preview ==
    /\ pc = "input"
    /\ preview_content' = render_markers_to_html(content)
    /\ pc' = "previewed"
    /\ UNCHANGED <<content, all_titles, current_title, sorted_titles, idx,
                   linked_content, mentioned_articles, rerendered>>
    /\ UNCHANGED storeVars

\* render_markers_to_html applied to its own result
Rerender ==
    /\ pc = "previewed"
    /\ rerendered' = render_markers_to_html(preview_content)
    /\ pc' = "rerendered"
    /\ UNCHANGED <<content, all_titles, current_title, sorted_titles, idx,
                   linked_content, mentioned_articles, preview_content>>
    /\ UNCHANGED storeVars

NextLink == CallLinks \/ LinkTitle \/ RenderLinked \/ FindMentioned

NextLinkFn == CallLinks \/ LinkTitle \/ RenderLinked \/ FindMentioned \/ Preview

NextRender == Preview \/ Rerender

SpecLink == InitLink /\ [][NextLink]_vars

SpecLinkFn == InitLinkFn /\ [][NextLinkFn]_vars

SpecRender == InitRender /\ [][NextRender]_vars

SpecNested == InitNested /\ [][NextRender]_vars

TextOff ==
    /\ content = <<>>
    /\ all_titles = <<>>
    /\ current_title = <<>>
    /\ pc = "idle"
    /\ TextIdle

Init == StoreInit /\ TextOff

\* the sign-up form, lines 384-400, and register_user
Register(u, p, confirm) ==
    /\ ~logged_in
    /\ users' = IF u = "" \/ p = "" \/ p # confirm \/ p \notin Passwords
                   \/ \E r \in users : r.username = u
                THEN users
                ELSE users \cup {[username |-> u, password |-> hash_password(p, u)]}
    /\ UNCHANGED <<articles, now, logged_in, username, encyclopedia, last_run, cached_rows, textVars>>

\* authenticate_user: the stored digest equals the salted digest of the attempt
authenticate_user(u, p) ==
    \E r \in users : r.username = u /\ r.password = hash_password(p, u)

\* the login form, lines 372-382
Login(u, p) ==
    /\ ~logged_in
    /\ IF authenticate_user(u, p)
       THEN /\ logged_in' = TRUE
            /\ username' = u
            /\ encyclopedia' = get_user_encyclopedia(articles, u)
            /\ cached_rows' = SelectArticles(articles, u)
       ELSE UNCHANGED <<logged_in, username, encyclopedia, cached_rows>>
    /\ UNCHANGED <<users, articles, now, last_run, textVars>>

\* the logout button, lines 417-421
Logout ==
    /\ logged_in
    /\ logged_in' = FALSE
    /\ username' = Null
    /\ encyclopedia' = << >>
    /\ cached_rows' = {}
    /\ UNCHANGED <<users, articles, now, last_run, textVars>>

\* the cached map when a page of the menu runs: the sidebar reloads it when the
\* article list is shown (lines 443-445)
Sidebar(show_list) ==
    IF show_list THEN get_user_encyclopedia(articles, username) ELSE encyclopedia

\* the rows behind Sidebar(show_list)
SidebarRows(show_list) ==
    IF show_list THEN SelectArticles(articles, username) ELSE cached_rows

\* the save button of the new-article page, lines 579-600
CreateArticle(title, form, show_list, broken) ==
    /\ logged_in
    /\ now < MaxClock
    /\ now' = now + 1
    /\ LET cached == Sidebar(show_list)
           saved == save_article(articles, now, username, title,
                                 Categories(form.category), form.content,
                                 form.uploads, NoTime, NoTime, broken)
           rejected == title = "" \/ title \in DOMAIN cached \/ form.content = ""
           reloaded == ~rejected /\ saved.ok
       IN  /\ articles' = IF rejected THEN articles ELSE saved.rows
           /\ encyclopedia' = IF reloaded
                              THEN get_user_encyclopedia(saved.rows, username)
                              ELSE cached
           /\ cached_rows' = IF reloaded
                             THEN SelectArticles(saved.rows, username)
                             ELSE SidebarRows(show_list)
           /\ last_run' = [op |-> "create", owner |-> username, title |-> title,
                           new_title |-> title, deleted |-> {},
                           delete_images |-> FALSE,
                           uploads |-> IF reloaded THEN form.uploads ELSE <<>>,
                           rejected |-> rejected, ok |-> reloaded,
                           before |-> articles, mid |-> articles]
    /\ UNCHANGED <<users, logged_in, username, textVars>>

\* the save button of the edit page, lines 604-606 and 710-737; delete_images is
\* the checkbox of line 685, whose value the handler never reads
EditArticle(article_to_edit, new_title, form, deleted, delete_images, broken) ==
    /\ logged_in
    /\ now < MaxClock
    /\ now' = now + 1
    /\ LET cached == get_user_encyclopedia(articles, username)
       IN  /\ article_to_edit \in DOMAIN cached
           /\ deleted \subseteq 0..(Len(cached[article_to_edit].images) - 1)
           /\ Len(KeptImages(cached[article_to_edit].images, deleted) \o form.uploads)
                  <= MaxImages
           /\ LET current_data == cached[article_to_edit]
                  images_data == KeptImages(current_data.images, deleted) \o form.uploads
                  after_delete == IF new_title # article_to_edit
                                  THEN delete_article(articles, username, article_to_edit)
                                  ELSE articles
                  saved == save_article(after_delete, now, username, new_title,
                                        Categories(form.category), form.content,
                                        images_data, current_data.created, NoTime, broken)
                  rejected == new_title = "" \/ form.content = ""
                  reloaded == ~rejected /\ saved.ok
              IN  /\ articles' = IF rejected THEN articles ELSE saved.rows
                  /\ encyclopedia' = IF reloaded
                                     THEN get_user_encyclopedia(saved.rows, username)
                                     ELSE cached
                  /\ cached_rows' = IF reloaded
                                    THEN SelectArticles(saved.rows, username)
                                    ELSE SelectArticles(articles, username)
                  /\ last_run' = [op |-> "edit", owner |-> username,
                                  title |-> article_to_edit, new_title |-> new_title,
                                  deleted |-> IF reloaded THEN deleted ELSE {},
                                  delete_images |-> reloaded /\ delete_images,
                                  uploads |-> IF reloaded THEN form.uploads ELSE <<>>,
                                  rejected |-> rejected, ok |-> reloaded,
                                  before |-> articles,
                                  mid |-> IF rejected THEN articles ELSE after_delete]
    /\ UNCHANGED <<users, logged_in, username, textVars>>

\* the delete button of the delete page, lines 741-763
DeleteArticle(article_to_delete) ==
    /\ logged_in
    /\ now < MaxClock
    /\ now' = now + 1
    /\ LET cached == get_user_encyclopedia(articles, username)
       IN  /\ article_to_delete \in DOMAIN cached
           /\ articles' = delete_article(articles, username, article_to_delete)
           /\ encyclopedia' = get_user_encyclopedia(articles', username)
           /\ cached_rows' = SelectArticles(articles', username)
    /\ last_run' = [op |-> "delete", owner |-> username, title |-> article_to_delete,
                    new_title |-> article_to_delete, deleted |-> {},
                    delete_images |-> FALSE, uploads |-> <<>>,
                    rejected |-> FALSE, ok |-> TRUE,
                    before |-> articles, mid |-> articles']
    /\ UNCHANGED <<users, logged_in, username, textVars>>

Next ==
    \/ \E u \in Owners \cup {""}, p, c \in Passwords \cup {""} : Register(u, p, c)
    \/ \E u \in Owners, p \in Passwords \cup {"wrong"} : Login(u, p)
    \/ Logout
    \/ \E t \in ArticleTitles \cup {""}, f \in Forms, s, b \in BOOLEAN :
          CreateArticle(t, f, s, b)
    \/ \E a \in ArticleTitles, t \in ArticleTitles \cup {""}, f \in Forms,
          d \in SUBSET (0..(MaxImages - 1)), da, b \in BOOLEAN :
             EditArticle(a, t, f, d, da, b)
    \/ \E a \in ArticleTitles : DeleteArticle(a)

Spec == Init /\ [][Next]_vars

\* ------------------------------------------------------------------------
\* Properties of create_article_links
\* ------------------------------------------------------------------------

\* the titles substituted by the loop
Candidates == Range(all_titles) \ {current_title}

\* create_article_links has returned
Returned == pc \in {"returned", "shown"}

\* the for loop is over and its result not yet rendered
LoopDone == pc = "loop" /\ idx > Len(sorted_titles)

ProperSubstring(s, l) == s # l /\ s # <<>> /\ Contains(l, s)

SpaceThree == <<" ", "3">>

\* "Python 3" with "Python" wrapped again inside its span
NestedPythonThree == Strong(Strong(Python) \o SpaceThree)

\* C1, as stated: when "Python" and "Python 3" are both candidates and the body
\* contains "Python 3", the output holds "Python 3" wrapped as one whole span and
\* holds no emphasized "Python" followed by a literal " 3".
C1_NeverFragmented ==
    (Returned /\ {Python, PythonThree} \subseteq Candidates
              /\ Contains(content, PythonThree))
        => /\ Contains(linked_content, Strong(PythonThree))
           /\ ~Contains(linked_content, Strong(Python) \o SpaceThree)

\* C1, amended: candidates are substituted longest first, so a candidate is never
\* substituted before a longer candidate that contains it; "Python 3" is wrapped
\* whole before "Python" is considered, and the substitution for "Python" then
\* matches again inside that span, so that the emphasized "Python" followed by
\* " 3" does appear, enclosed in the span of "Python 3".
C1_LongestFirst ==
    pc = "loop" =>
        /\ \A i, j \in 1..Len(sorted_titles) :
              ProperSubstring(sorted_titles[j], sorted_titles[i]) => i < j
        /\ (/\ Len(sorted_titles) >= 2
            /\ sorted_titles[1] = PythonThree
            /\ sorted_titles[2] = Python
            /\ Contains(content, PythonThree))
           => /\ idx = 2 => /\ Contains(linked_content, Strong(PythonThree))
                            /\ ~Contains(linked_content, Strong(Python))
              /\ idx = 3 => /\ Contains(linked_content, NestedPythonThree)
                            /\ ~Contains(linked_content, Strong(PythonThree))

\* "Python 3" is wrapped whole and "Python" is the next title to be taken
C1_Witness ==
    /\ pc = "loop"
    /\ idx = 2
    /\ Len(sorted_titles) >= 2
    /\ sorted_titles[1] = PythonThree
    /\ sorted_titles[2] = Python
    /\ Contains(linked_content, Strong(PythonThree))
    /\ ~Contains(linked_content, Strong(Python))

\* the texts that stand between an open emphasis marker and the first close
\* marker after it, open markers nested in them taken out
EmphasizedSpans(text) ==
    {Replace(SubSeq(text, p + Len(StrongOpen),
                    Find(text, StrongClose, p + Len(StrongOpen)) - 1),
             StrongOpen, <<>>) :
        p \in {q \in 1..Len(text) :
                  /\ StartsWithAt(text, StrongOpen, q)
                  /\ Find(text, StrongClose, q + Len(StrongOpen)) # 0}}

\* C2, as stated: no occurrence of the current article's own title ends up
\* inside an emphasis marker pair in the output of create_article_links, also
\* when another candidate contains the current title or is contained in it.
C2_SelfNeverEmphasized ==
    Returned => \A span \in EmphasizedSpans(linked_content) :
                    ~Contains(span, current_title)

\* C2, amended: the current title is never one of the titles substituted, and
\* the output holds no emphasis marker pair that encloses exactly the current
\* title; an occurrence of it inside an occurrence of a longer candidate is
\* emphasized as part of that candidate.
C2_SelfNeverWrapped ==
    /\ pc = "loop" => current_title \notin Range(sorted_titles)
    /\ Returned => ~Contains(linked_content, Strong(current_title))

C2_Witness ==
    /\ Returned
    /\ Contains(content, current_title)
    /\ \E l, s \in Candidates :
          /\ ProperSubstring(current_title, l) /\ Contains(content, l)
          /\ ProperSubstring(s, current_title)
    /\ linked_content # content

\* the text with every whole emphasis marker taken out
Unmarked(text) == Replace(Replace(text, StrongClose, <<>>), StrongOpen, <<>>)

\* C3: the loop only inserts whole emphasis markers: taking the markers out of
\* its result gives back the body, character for character, so no marker was
\* rewritten by the substitution for a later candidate.
C3_OnlyInsertsMarkers ==
    LoopDone => Unmarked(linked_content) = content

Position(s, t) == CHOOSE i \in 1..Len(s) : s[i] = t

\* C4: the related-articles list holds exactly the titles other than the current
\* one that occur in the original body, each once, in the order of all_titles.
C4_MentionedArticles ==
    pc = "shown" =>
        /\ Range(mentioned_articles)
              = {t \in Range(all_titles) : t # current_title /\ Contains(content, t)}
        /\ Injective(mentioned_articles)
        /\ \A i, j \in 1..Len(mentioned_articles) :
              i < j => Position(all_titles, mentioned_articles[i])
                          < Position(all_titles, mentioned_articles[j])

\* a list in title order that is not in length order, beside a title of the
\* universe that is left out
C4_Witness ==
    /\ pc = "shown"
    /\ Len(mentioned_articles) >= 2
    /\ Len(mentioned_articles[1]) < Len(mentioned_articles[2])
    /\ linked_content # content

\* ------------------------------------------------------------------------
\* Properties of render_markers_to_html
\* ------------------------------------------------------------------------

\* render_markers_to_html(content) has returned
Previewed == pc \in {"previewed", "rerendered"}

TagTokens == {OpenTag(k) : k \in Kinds} \cup {CloseTag(k) : k \in Kinds}

NoTagTokens(text) == \A tok \in TagTokens : ~Contains(text, tok)

\* the text with a line break in place of every newline, character by character
WithBreaks(text) ==
    Flatten([i \in 1..Len(text) |-> IF text[i] = "\n" THEN Br ELSE <<text[i]>>])

\* an open token of kind k at p with no close token of that kind after it
UnmatchedOpenAt(text, k, p) ==
    /\ StartsWithAt(text, OpenTag(k), p)
    /\ Find(text, CloseTag(k), p + Len(OpenTag(k))) = 0

HasPair(text) ==
    \E k \in Kinds, p \in 1..Len(text) :
        StartsWithAt(text, OpenTag(k), p) /\ ~UnmatchedOpenAt(text, k, p)

\* content is the open token of kind k, some inner content, the close token
Enclosed(text, k) ==
    /\ Len(text) >= Len(OpenTag(k)) + Len(CloseTag(k))
    /\ StartsWithAt(text, OpenTag(k), 1)
    /\ StartsWithAt(text, CloseTag(k), Len(text) - Len(CloseTag(k)) + 1)

Inner(text, k) == SubSeq(text, Len(OpenTag(k)) + 1, Len(text) - Len(CloseTag(k)))

\* C5: a text with none of the eight tag tokens is rendered as itself with every
\* newline replaced by "<br>", and nothing else changed.
C5_NoTokensOnlyBreaks ==
    (Previewed /\ NoTagTokens(content)) => preview_content = WithBreaks(content)

C5_Witness ==
    /\ Previewed
    /\ NoTagTokens(content)
    /\ Contains(content, Newline \o Letter \o Newline)
    /\ preview_content = Br \o Letter \o Br

\* C6, as stated: for each kind and every inner content X, open + X + close is
\* rendered as X in the styled container of that kind, and neither the open nor
\* the close token of that kind remains in the output.
C6_EveryInnerContent ==
    \A k \in Kinds :
        (Previewed /\ Enclosed(content, k))
            => /\ StartsWithAt(preview_content, MarkOpen(k), 1)
               /\ StartsWithAt(preview_content, MarkClose,
                               Len(preview_content) - Len(MarkClose) + 1)
               /\ ~Contains(preview_content, OpenTag(k))
               /\ ~Contains(preview_content, CloseTag(k))

\* C6, amended: for each kind and every inner content X that holds neither the
\* open nor the close token of that kind, open + X + close is rendered as the
\* styled container of that kind around the rendering of X, and neither token of
\* that kind remains in the output.
C6_InnerWithoutSameKind ==
    \A k \in Kinds :
        (/\ Previewed
         /\ Enclosed(content, k)
         /\ ~Contains(Inner(content, k), OpenTag(k))
         /\ ~Contains(Inner(content, k), CloseTag(k)))
            => /\ preview_content
                    = MarkOpen(k) \o render_markers_to_html(Inner(content, k)) \o MarkClose
               /\ NoTagTokens(Inner(content, k))
                    => preview_content
                          = MarkOpen(k) \o WithBreaks(Inner(content, k)) \o MarkClose
               /\ ~Contains(preview_content, OpenTag(k))
               /\ ~Contains(preview_content, CloseTag(k))

C6_Witness ==
    /\ Previewed
    /\ content = OpenTag("blue") \o Newline \o CloseTag("blue")
    /\ preview_content = BlueMark \o Br \o MarkClose

\* C7: an open token with no close token of its kind after it stays in the output
\* as literal text, and a text with no complete pair of any kind is rendered as
\* itself with the newlines replaced.
C7_UnmatchedStaysLiteral ==
    Previewed =>
        /\ \A k \in Kinds :
              (\E p \in 1..Len(content) : UnmatchedOpenAt(content, k, p))
                  => Contains(preview_content, OpenTag(k))
        /\ ~HasPair(content) => preview_content = WithBreaks(content)

C7_Witness ==
    /\ Previewed
    /\ content = OpenTag("red") \o Letter \o Newline
    /\ preview_content = OpenTag("red") \o Letter \o Br

\* C9: when the rendering of a text holds no literal tag token, rendering it
\* again changes nothing.
C9_RerenderStable ==
    (pc = "rerendered" /\ NoTagTokens(preview_content)) => rerendered = preview_content

C9_Witness ==
    /\ pc = "rerendered"
    /\ HasPair(content)
    /\ Contains(content, Newline)
    /\ NoTagTokens(preview_content)
    /\ rerendered = preview_content

\* ------------------------------------------------------------------------
\* Properties of the empty inputs
\* ------------------------------------------------------------------------

\* C8, as stated: create_article_links of the empty body is the empty text for
\* every list of titles, one that holds the empty title too, and every current
\* title; render_markers_to_html of the empty text is the empty text.
C8_EmptyInEmptyOut ==
    /\ (Returned /\ content = <<>>) => linked_content = <<>>
    /\ (Previewed /\ content = <<>>) => preview_content = <<>>

\* C8, amended: create_article_links of the empty body is the empty text for
\* every list of titles in which the empty title is not a candidate (it is not
\* in the list, or it is the current title); where the empty title is a
\* candidate the result is one empty emphasis span. render_markers_to_html of
\* the empty text is the empty text.
C8_EmptyBody ==
    /\ (Returned /\ content = <<>> /\ <<>> \notin Candidates) => linked_content = <<>>
    /\ (Returned /\ content = <<>> /\ <<>> \in Candidates)
          => linked_content = Strong(<<>>)
    /\ (Previewed /\ content = <<>>) => preview_content = <<>>

C8_Witness ==
    /\ Returned
    /\ content = <<>>
    /\ Len(all_titles) >= 2
    /\ <<>> \in Range(all_titles)
    /\ current_title = <<>>
    /\ linked_content = <<>>

\* ------------------------------------------------------------------------
\* Properties of the article store
\* ------------------------------------------------------------------------

\* C10: the table holds at most one row for each pair of owner and title.
C10_OneArticlePerOwnerTitle ==
    \A r1, r2 \in articles :
        (r1.username = r2.username /\ r1.title = r2.title) => r1 = r2

\* two owners hold the same title after three saves, one of them a later save
\* to a pair that was already stored
C10_Witness ==
    /\ now = MaxClock
    /\ \E r1, r2 \in articles :
          /\ r1.username # r2.username
          /\ r1.title = r2.title
          /\ r1.updated # NoTime

\* ------------------------------------------------------------------------
\* Properties of the save, edit and delete handlers
\* ------------------------------------------------------------------------

\* the row stored for owner u under title t
TheRow(rows, u, t) == CHOOSE r \in RowsOf(rows, u, t) : TRUE

\* the last handler was an edit that changed the title
Renamed == last_run.op = "edit" /\ last_run.new_title # last_run.title

\* the last handler was a create or a rename whose target title was stored for
\* the same owner when it ran
TargetTaken ==
    /\ last_run.op = "create" \/ Renamed
    /\ RowsOf(last_run.before, last_run.owner, last_run.new_title) # {}

\* C11: a create, or an edit that renames, whose target title already belongs
\* to another article of the owner is rejected and leaves the table unchanged.
C11_DuplicateRejected ==
    TargetTaken => (last_run.rejected /\ articles = last_run.before)

\* C12: after an edit that changed the title, no article is left under the old
\* title and the article under the new title carries the created timestamp the
\* article had under the old title, also when the new title was in use.
C12_RenameKeepsCreated ==
    (Renamed /\ last_run.ok) =>
        /\ RowsOf(articles, last_run.owner, last_run.title) = {}
        /\ RowsOf(articles, last_run.owner, last_run.new_title) # {}
        /\ \A r \in RowsOf(articles, last_run.owner, last_run.new_title) :
              r.created = TheRow(last_run.before, last_run.owner, last_run.title).created

\* C13: the updated timestamp is absent right after the first save and set after
\* every later modification, whether the edit keeps the title or changes it.
C13_UpdatedIffModified ==
    /\ (last_run.op = "create" /\ last_run.ok)
          => TheRow(articles, last_run.owner, last_run.title).updated = NoTime
    /\ (last_run.op = "edit" /\ last_run.ok)
          => TheRow(articles, last_run.owner, last_run.new_title).updated # NoTime

\* save_article was called for a pair that was stored, and returned True
SavedOnExistingPair ==
    /\ last_run.op \in {"create", "edit"}
    /\ last_run.ok
    /\ RowsOf(last_run.mid, last_run.owner, last_run.new_title) # {}

\* C14: save_article on a stored pair changes only the categories, body, images
\* and updated timestamp of that row: created keeps its value whatever value is
\* passed, no row is added, and every other row is as it was.
C14_SaveOnExistingPair ==
    SavedOnExistingPair =>
        LET old == TheRow(last_run.mid, last_run.owner, last_run.new_title)
            new == TheRow(articles, last_run.owner, last_run.new_title)
        IN  /\ RowsOf(articles, last_run.owner, last_run.new_title) = {new}
            /\ articles \ {new} = last_run.mid \ {old}
            /\ Cardinality(articles) = Cardinality(last_run.mid)
            /\ new.created = old.created
            /\ new.updated = now - 1
            /\ ImagesOf(new.images)
                  = KeptImages(ImagesOf(TheRow(last_run.before, last_run.owner,
                                               last_run.title).images),
                               last_run.deleted) \o last_run.uploads

\* a rename onto a stored title: the created value passed is that of the renamed
\* article and differs from the one stored
C14_Witness ==
    /\ SavedOnExistingPair
    /\ Renamed
    /\ TheRow(last_run.before, last_run.owner, last_run.title).created
          # TheRow(articles, last_run.owner, last_run.new_title).created
    /\ TheRow(articles, last_run.owner, last_run.new_title).updated = now - 1

\* C18: a rename whose save fails leaves the article stored under its old title
\* as it was.
C18_FailedRenameKeepsArticle ==
    (Renamed /\ ~last_run.rejected /\ ~last_run.ok) =>
        RowsOf(articles, last_run.owner, last_run.title)
            = RowsOf(last_run.before, last_run.owner, last_run.title)

\* C19: after an edit the stored images are the existing ones without those
\* selected for deletion, one by one or all of them by the checkbox, in their
\* order, followed by the uploaded ones.
C19_ImagesAfterEdit ==
    (last_run.op = "edit" /\ last_run.ok) =>
        ImagesOf(TheRow(articles, last_run.owner, last_run.new_title).images)
            = (IF last_run.delete_images THEN <<>>
               ELSE KeptImages(ImagesOf(TheRow(last_run.before, last_run.owner,
                                               last_run.title).images),
                               last_run.deleted))
              \o last_run.uploads

\* C20: a logged-in session has a registered username and a cached map read
\* from rows of that username only; a logged-out session has no username and an
\* empty map; the rows a handler of the session added, changed or removed are
\* rows of the owner logged in when it ran.
C20_SessionOwnsItsData ==
    /\ logged_in =>
          /\ \E r \in users : r.username = username
          /\ \A r \in cached_rows : r.username = username
          /\ encyclopedia = get_user_encyclopedia(cached_rows, username)
    /\ ~logged_in => (username = Null /\ DOMAIN encyclopedia = {} /\ cached_rows = {})
    /\ \A r \in (articles \ last_run.before) \cup (last_run.before \ articles) :
          r.username = last_run.owner /\ last_run.owner \in Owners

\* one owner is logged in with articles in the cached map while the table holds
\* rows of the other owner too, and the last handler changed the table
C20_Witness ==
    /\ logged_in
    /\ DOMAIN encyclopedia # {}
    /\ \E r \in articles : r.username # username
    /\ articles # last_run.before

\* ------------------------------------------------------------------------
\* Properties of nested tokens, nested spans and the order of the titles
\* ------------------------------------------------------------------------

\* C15: for open a open b close c close of one kind, one styled span runs from
\* the first open token to the first close token with the inner open token kept
\* as literal content, and what follows the first close token, the second close
\* token included, is left as literal text.
C15_FirstCloseWins ==
    \A k \in Kinds : \A a, b, c \in NestedFill :
        (Previewed /\ content = Nested(k, a, b, c))
            => preview_content
                  = MarkOpen(k) \o WithBreaks(a) \o OpenTag(k) \o WithBreaks(b)
                      \o MarkClose \o WithBreaks(c) \o CloseTag(k)

C15_Witness ==
    /\ Previewed
    /\ content = Nested("green", Letter, Newline, Letter)
    /\ Contains(preview_content, Letter \o OpenTag("green") \o Br \o MarkClose)
    /\ Contains(preview_content, MarkClose \o Letter \o CloseTag("green"))

\* the text the loop holds before it takes the title at position j
LinkedBefore(j) == LinkAll(content, SubSeq(sorted_titles, 1, j - 1))

\* C16: a shorter candidate that occurs inside a span already wrapped for a
\* longer candidate is matched again and wrapped inside that span: after its
\* turn the text holds the span of the longer title with the shorter title
\* wrapped in it, and with "Python 3" and "Python" the candidates the output
\* holds the emphasis of "Python" nested in the emphasis of "Python 3".
C16_WrappedAgainInside ==
    /\ (pc = "loop" /\ idx > 1) =>
          \A i \in 1..(idx - 2) :
              LET l == sorted_titles[i]
                  s == sorted_titles[idx - 1]
              IN  (ProperSubstring(s, l) /\ Contains(LinkedBefore(idx - 1), Strong(l)))
                      => /\ linked_content = LinkOne(LinkedBefore(idx - 1), s)
                         /\ Contains(linked_content, Replace(Strong(l), s, Strong(s)))
                         /\ Contains(linked_content, Strong(s))
    /\ (Returned /\ Candidates = {Python, PythonThree} /\ Contains(content, PythonThree))
          => Contains(linked_content, NestedPythonThree)

C16_Witness ==
    /\ Returned
    /\ Candidates = {Python, PythonThree}
    /\ Contains(content, PythonThree)
    /\ Contains(linked_content, NestedPythonThree)

\* the lists that hold the same titles as all_titles in any order
Reorderings == {other \in TitleLists(Range(all_titles)) : Range(other) = Range(all_titles)}

\* C17: the output depends on the body, the set of titles and the current title
\* only: the same titles in any other order give the same output.
C17_OrderIndependent ==
    Returned =>
        \A other \in Reorderings :
            create_article_links(content, other, current_title) = linked_content

====
